---- MODULE Spec2Model ----
(***************************************************************************)
(* Model of src/src/App.js: the Steam OpenID session lifecycle (express +  *)
(* express-session + passport + passport-openid glue), the identity        *)
(* derivation used by the validate callback and by deserializeUser, and    *)
(* the promise chain of App.doPromise.                                     *)
(***************************************************************************)
EXTENDS FiniteSets, Integers, Sequences, TLC

(***************************************************************************)
(* Bounds of the model.                                                    *)
(***************************************************************************)
\* longest identifier string explored by the identity-derivation specification
MaxLen == 3
\* number of session keys (clients) served by the server
NumSessions == 2
\* number of mounted App components, each running doPromise once
MaxMounts == 3

(***************************************************************************)
(* JavaScript strings are sequences of characters over a small alphabet:   *)
(* a letter, the path separator and two decimal digits.                    *)
(***************************************************************************)
Digits == {"1", "2"}

Chars == {"h", "/"} \cup Digits

StringsOfLen(n) == [1..n -> Chars]

Strings == UNION {StringsOfLen(n) : n \in 0..MaxLen}

\* the value of an absent property / a variable that holds nothing
undefined == <<"undefined">>

\* the result of String.prototype.match when the pattern does not match
null == <<"null">>

\* the character class \d
IsDigit(c) == c \in Digits

(***************************************************************************)
(* identifier.match(/\d+$/): the regular-expression engine tries the start *)
(* positions from left to right; at a start position \d+ takes digits      *)
(* greedily and $ demands the end of the input.  The first start position  *)
(* that succeeds gives the match; with none the result is null.            *)
(***************************************************************************)
MatchStarts(str) ==
    {i \in 1..Len(str) : \A j \in i..Len(str) : IsDigit(str[j])}

\* variant: the pattern without the anchor, /\d+/ (the first run of digits)
matchFirstDigits(str) ==
    LET starts == {i \in 1..Len(str) : IsDigit(str[i])}
    IN  IF starts = {} THEN null
        ELSE LET i == CHOOSE k \in starts : \A m \in starts : k <= m
                 e == CHOOSE k \in i..Len(str) :
                        /\ \A j \in i..k : IsDigit(str[j])
                        /\ (k = Len(str) \/ ~IsDigit(str[k + 1]))
             IN  <<SubSeq(str, i, e)>>

\* variant: the pattern /\d*$/, which also matches the empty suffix
matchOrEmpty(str) ==
    IF MatchStarts(str) = {} THEN <<(<<>>)>>
    ELSE LET i == CHOOSE k \in MatchStarts(str) : \A m \in MatchStarts(str) : k <= m
         IN  <<SubSeq(str, i, Len(str))>>

\* the match array (only element [0] is used) or null
match(str) ==
    IF MatchStarts(str) = {} THEN null
    ELSE LET i == CHOOSE k \in MatchStarts(str) : \A m \in MatchStarts(str) : k <= m
         IN  <<SubSeq(str, i, Len(str))>>

(***************************************************************************)
(* Outcomes of a callback: it either calls done(err, value) or throws.     *)
(* Indexing null (null[0]) throws a TypeError.                             *)
(***************************************************************************)
Done(value) == [kind |-> "done", error |-> "none", value |-> value]

Throw(error) == [kind |-> "throw", error |-> error, value |-> undefined]

User(identifier, steamId) == [identifier |-> identifier, steamId |-> steamId]

\* request.user when nobody is logged in
noUser == User(undefined, undefined)

\* the validate callback of the strategy: the function run by process.nextTick
validate(identifier) ==
    IF match(identifier) = null THEN Throw("TypeError")
    ELSE Done(User(identifier, match(identifier)[1]))

\* variant: the numeric ID as the session key
serializeSteamId(user) == Done(user.steamId)

\* passport.serializeUser callback
serializeUser(user) == Done(user.identifier)

\* passport.deserializeUser callback
deserializeUser(identifier) ==
    IF match(identifier) = null THEN Throw("TypeError")
    ELSE Done(User(identifier, match(identifier)[1]))

(***************************************************************************)
(* State.                                                                  *)
(***************************************************************************)
VARIABLES
    \* identity derivation applied to one claimed identifier
    identifier,     \* the claimed identifier handed to the callbacks
    validated,      \* outcome of validate(identifier)
    key,            \* outcome of serializeUser on the validated user
    restored,       \* outcome of deserializeUser
    stage,          \* which callbacks have run
    \* session lifecycle
    session,        \* session key -> session.passport.user (undefined if none)
    awaiting,       \* session key -> the client was sent to the provider and is not back
    roundTrip,      \* session key -> the provider accepted a return on it since its last logout
    request,        \* the request served last
    before,         \* the requesting session as that request found it
    response,       \* the response to it
    server,         \* "up", or "down" after an uncaught exception
    \* doPromise
    mounted,        \* how many App components have run componentDidMount
    promises,       \* promise -> its state and value
    reactions,      \* promise -> the reactions registered on it while pending
    microtasks,     \* the job queue of the engine, first in first out
    console         \* what console.log has printed, in order

idVars == <<identifier, validated, key, restored, stage>>

authVars == <<session, awaiting, roundTrip, request, before, response, server>>

promiseVars == <<mounted, promises, reactions, microtasks, console>>

vars == <<identifier, validated, key, restored, stage,
          session, awaiting, roundTrip, request, before, response, server,
          mounted, promises, reactions, microtasks, console>>

notRun == [kind |-> "none", error |-> "none", value |-> undefined]

(***************************************************************************)
(* Responses.                                                              *)
(***************************************************************************)
providerURL == "http://steamcommunity.com/openid"

Redirect(location) ==
    [kind |-> "redirect", location |-> location, error |-> "none", body |-> <<>>]

\* passport ends the response itself with 401 Unauthorized
Unauthorized ==
    [kind |-> "unauthorized", location |-> <<>>, error |-> "none", body |-> <<>>]

\* next(err): express answers 500
ServerError(error) ==
    [kind |-> "error", location |-> <<>>, error |-> error, body |-> <<>>]

Page(body) ==
    [kind |-> "page", location |-> <<>>, error |-> "none", body |-> body]

\* the process died before answering (or nothing was requested yet)
NoResponse ==
    [kind |-> "none", location |-> <<>>, error |-> "none", body |-> <<>>]

(***************************************************************************)
(* Requests.  The query of a request to the return route is the provider's *)
(* assertion; the relying party's verdict on it belongs to the library.    *)
(***************************************************************************)
SessionKeys == 1..NumSessions

\* claimed identifiers the provider may assert: two accounts and one
\* identifier without a numeric suffix
ClaimedIds == {<<"h", "/", "1">>, <<"h", "/", "2">>, <<"h", "/">>}

Assertion(mode, verdict, claimed) ==
    [mode |-> mode, verdict |-> verdict, claimedIdentifier |-> claimed]

NoAssertion == Assertion("none", "none", undefined)

\* the user cancelled at the provider, or the assertion does not verify
\* (verifyAssertion reports an error or an unauthenticated result)
RejectedAssertions ==
    {Assertion("cancel", "none", undefined)} \cup
    {Assertion("id_res", v, c) : v \in {"error", "unauthenticated"}, c \in ClaimedIds}

AcceptedAssertions == {Assertion("id_res", "authenticated", c) : c \in ClaimedIds}

ReturnQueries == {NoAssertion} \cup RejectedAssertions \cup AcceptedAssertions

Referers == {undefined, <<"/", "h">>}

RootQuery(steamid, failed) == [steamid |-> steamid, failed |-> failed]

RootQueries ==
    { RootQuery(undefined, FALSE), RootQuery(undefined, TRUE),
      RootQuery(<<"1">>, FALSE), RootQuery(<<>>, FALSE) }

Request(route, sid, query, referer) ==
    [route |-> route, sid |-> sid, query |-> query, referer |-> referer]

\* what a handler leaves behind: session.passport.user, the response, the process
Result(sessionUser, resp, srv) ==
    [sessionUser |-> sessionUser, response |-> resp, server |-> srv]

(***************************************************************************)
(* Middleware.                                                             *)
(***************************************************************************)
\* variant: app.use(passport.session()) is left out, request.user is never set
passportSessionMissing(sessionUser) == Done(noUser)

\* passport.session(): request.user is deserialized from session.passport.user;
\* passport catches an exception of deserializeUser and passes it to next(err)
passportSession(sessionUser) ==
    IF sessionUser = undefined THEN Done(noUser)
    ELSE deserializeUser(sessionUser)

\* variant: the result of verifyAssertion is used without looking at
\* err and result.authenticated
strategyAuthenticateUnchecked(query) ==
    IF query.mode = "none"
      THEN [action |-> "redirect", error |-> "none", user |-> noUser]
    ELSE IF query.mode = "cancel"
      THEN [action |-> "fail", error |-> "none", user |-> noUser]
    ELSE LET v == validate(query.claimedIdentifier)
         IN  IF v.kind = "throw"
               THEN [action |-> "uncaught", error |-> v.error, user |-> noUser]
               ELSE [action |-> "success", error |-> "none", user |-> v.value]

\* the strategy's verdict on a request: redirect to the provider when the
\* request carries no assertion, fail on a cancelled one, error on one that
\* does not verify, otherwise the validate callback decides
strategyAuthenticate(query) ==
    IF query.mode = "none"
      THEN [action |-> "redirect", error |-> "none", user |-> noUser]
    ELSE IF query.mode = "cancel"
      THEN [action |-> "fail", error |-> "none", user |-> noUser]
    ELSE IF query.verdict = "error"
      THEN [action |-> "error", error |-> "InternalOpenIDError", user |-> noUser]
    ELSE IF query.verdict = "unauthenticated"
      THEN [action |-> "error", error |-> "OpenID authentication failed", user |-> noUser]
    ELSE LET v == validate(query.claimedIdentifier)
         IN  IF v.kind = "throw"
               THEN [action |-> "uncaught", error |-> v.error, user |-> noUser]
               ELSE [action |-> "success", error |-> "none", user |-> v.value]

\* request.logIn(user): session.passport.user = serializeUser(user)
logIn(sessionUser, user) == serializeUser(user).value

\* variant: only request.user is reset, the session keeps its key
logoutKeep(sessionUser) == sessionUser

\* request.logout(): session.passport.user is deleted
logout(sessionUser) == undefined

(***************************************************************************)
(* Promises of doPromise.  Each mounted component i has its own p1, p2,    *)
(* p3, _await and the promises d1..d4 returned by the three then() calls   *)
(* and the catch() call; all components share the microtask queue and the  *)
(* console.                                                                *)
(***************************************************************************)
Instances == 1..MaxMounts

PromiseNames == {"p1", "p2", "p3", "_await", "d1", "d2", "d3", "d4"}

PromiseIds == Instances \X PromiseNames

Pending == [state |-> "pending", value |-> "undefined"]

Fulfilled(v) == [state |-> "fulfilled", value |-> v]

Rejected(v) == [state |-> "rejected", value |-> v]

\* what a handler returns: a plain value or a promise
Plain(v) == [isPromise |-> FALSE, name |-> "none", value |-> v]

Thenable(name) == [isPromise |-> TRUE, name |-> name, value |-> "undefined"]

\* a reaction: the handler to run and the promise that then()/catch() returned
Reaction(handler, derived) == [handler |-> handler, derived |-> derived]

ReactionJob(i, reaction, how, arg) ==
    [kind |-> "reaction", inst |-> i, handler |-> reaction.handler,
     target |-> reaction.derived, thenable |-> "none", how |-> how, arg |-> arg]

ResolveThenableJob(i, target, thenable) ==
    [kind |-> "thenable", inst |-> i, handler |-> "none",
     target |-> target, thenable |-> thenable, how |-> "none", arg |-> "undefined"]

\* the engine state the operations below transform
Engine(ps, rs, q, out) ==
    [promises |-> ps, reactions |-> rs, microtasks |-> q, console |-> out]

\* variant: the first step hands on p3
cb1ReturnsP3(arg) == [logged |-> <<arg, "_await">>, returns |-> Thenable("p3")]

\* the value a handler logs and what it returns
\* _p1 => { console.log(_p1, _await); return p2; }
cb1(arg) == [logged |-> <<arg, "_await">>, returns |-> Thenable("p2")]

\* variant: the second step does not return p3
cb2NoReturn(arg) == [logged |-> <<arg>>, returns |-> Plain("undefined")]

\* _p2 => { console.log(_p2); return p3; }
cb2(arg) == [logged |-> <<arg>>, returns |-> Thenable("p3")]

\* _p3 => { console.log(_p3); }
cb3(arg) == [logged |-> <<arg>>, returns |-> Plain("undefined")]

\* err => { console.log(err); }
catchHandler(arg) == [logged |-> <<arg>>, returns |-> Plain("undefined")]

\* one job per reaction of the promise, in registration order
RECURSIVE ReactionJobs(_, _, _, _)
ReactionJobs(i, rs, how, v) ==
    IF rs = <<>> THEN <<>>
    ELSE <<ReactionJob(i, Head(rs), how, v)>> \o ReactionJobs(i, Tail(rs), how, v)

\* a pending promise is settled: its reactions become jobs
settle(e, i, name, how, v) ==
    IF e.promises[<<i, name>>].state # "pending" THEN e
    ELSE Engine([e.promises EXCEPT ![<<i, name>>] = [state |-> how, value |-> v]],
                [e.reactions EXCEPT ![<<i, name>>] = <<>>],
                e.microtasks \o ReactionJobs(i, e.reactions[<<i, name>>], how, v),
                e.console)

\* the resolve function of a promise: a promise as resolution is adopted in a
\* later job, any other value fulfils at once
resolve(e, i, name, resolution) ==
    IF resolution.isPromise
      THEN Engine(e.promises, e.reactions,
                  Append(e.microtasks, ResolveThenableJob(i, name, resolution.name)),
                  e.console)
      ELSE settle(e, i, name, "fulfilled", resolution.value)

\* promise.then(reaction): queued at once when the promise is settled
then(e, i, name, reaction) ==
    LET p == e.promises[<<i, name>>]
    IN  IF p.state = "pending"
          THEN Engine(e.promises,
                      [e.reactions EXCEPT ![<<i, name>>] = Append(@, reaction)],
                      e.microtasks, e.console)
          ELSE Engine(e.promises, e.reactions,
                      Append(e.microtasks, ReactionJob(i, reaction, p.state, p.value)),
                      e.console)

\* a handler is called: its output is printed, its return value resolves the
\* promise derived from it
call(e, job, h) ==
    resolve(Engine(e.promises, e.reactions, e.microtasks,
                   Append(e.console, [inst |-> job.inst, args |-> h.logged])),
            job.inst, job.target, h.returns)

\* a reaction whose handler is missing for this outcome passes the outcome on
passOn(e, job) == settle(e, job.inst, job.target, job.how, job.arg)

\* one job of the microtask queue, with the queue already without it
runJob(e, job) ==
    IF job.kind = "thenable"
      THEN then(e, job.inst, job.thenable, Reaction("resolveFunctions", job.target))
    ELSE IF job.handler = "resolveFunctions"
      THEN IF job.how = "fulfilled"
             THEN resolve(e, job.inst, job.target, Plain(job.arg))
             ELSE settle(e, job.inst, job.target, "rejected", job.arg)
    ELSE IF job.handler = "catch"
      THEN IF job.how = "rejected" THEN call(e, job, catchHandler(job.arg))
           ELSE passOn(e, job)
    ELSE IF job.how = "rejected" THEN passOn(e, job)
    ELSE IF job.handler = "cb1" THEN call(e, job, cb1(job.arg))
    ELSE IF job.handler = "cb2" THEN call(e, job, cb2(job.arg))
    ELSE call(e, job, cb3(job.arg))

\* the synchronous body of doPromise for component i
doPromise(e, i) ==
    LET created == Engine(
            [id \in PromiseIds |->
                IF id[1] # i THEN e.promises[id]
                ELSE IF id[2] = "p1" THEN Fulfilled("1")
                ELSE IF id[2] = "p2" THEN Fulfilled("2")
                ELSE IF id[2] = "p3" THEN Fulfilled("3")
                ELSE IF id[2] = "_await" THEN Fulfilled("undefined")
                ELSE Pending],
            e.reactions, e.microtasks, e.console)
        t1 == then(created, i, "p1", Reaction("cb1", "d1"))
        t2 == then(t1, i, "d1", Reaction("cb2", "d2"))
        t3 == then(t2, i, "d2", Reaction("cb3", "d3"))
    IN  then(t3, i, "d3", Reaction("catch", "d4"))

Current == Engine(promises, reactions, microtasks, console)

Becomes(e) ==
    /\ promises' = e.promises
    /\ reactions' = e.reactions
    /\ microtasks' = e.microtasks
    /\ console' = e.console

\* componentDidMount of the next component calls doPromise
ComponentDidMount ==
    /\ mounted < MaxMounts
    /\ mounted' = mounted + 1
    /\ Becomes(doPromise(Current, mounted + 1))
    /\ UNCHANGED <<idVars, authVars>>

\* the engine takes the first job of the microtask queue and runs it
RunMicrotask ==
    /\ microtasks # <<>>
    /\ Becomes(runJob(Engine(promises, reactions, Tail(microtasks), console),
                      Head(microtasks)))
    /\ UNCHANGED <<mounted, idVars, authVars>>

PromiseIdle ==
    /\ mounted = 0
    /\ promises = [id \in PromiseIds |-> [state |-> "none", value |-> "undefined"]]
    /\ reactions = [id \in PromiseIds |-> <<>>]
    /\ microtasks = <<>>
    /\ console = <<>>

(***************************************************************************)
(* Route handlers: from session.passport.user, request.user and the        *)
(* request to the Result.                                                  *)
(***************************************************************************)
\* variant: the whole claimed identifier is put in the query
returnHandlerIdentifier(user) ==
    IF user # noUser
      THEN Redirect(<<"/?steamid=", user.identifier>>)
      ELSE Redirect(<<"/?failed">>)

\* the route function of GET /auth/openid/return, run when the middleware
\* before it calls next()
returnHandler(user) ==
    IF user # noUser
      THEN Redirect(<<"/?steamid=", user.steamId>>)
      ELSE Redirect(<<"/?failed">>)

\* passport.authenticate('openid') without options: a redirect is sent, a
\* failure ends the response with 401, an error goes to next(err), an exception
\* in the nextTick callback is uncaught and ends the process, and a success logs
\* the user in and calls next()
passportAuthenticate(sessionUser, query) ==
    LET a == strategyAuthenticate(query)
    IN  CASE a.action = "redirect" ->
               [next |-> FALSE, user |-> noUser,
                result |-> Result(sessionUser, Redirect(<<providerURL>>), "up")]
          [] a.action = "fail" ->
               [next |-> FALSE, user |-> noUser,
                result |-> Result(sessionUser, Unauthorized, "up")]
          [] a.action = "error" ->
               [next |-> FALSE, user |-> noUser,
                result |-> Result(sessionUser, ServerError(a.error), "up")]
          [] a.action = "uncaught" ->
               [next |-> FALSE, user |-> noUser,
                result |-> Result(sessionUser, NoResponse, "down")]
          [] OTHER ->
               [next |-> TRUE, user |-> a.user,
                result |-> Result(logIn(sessionUser, a.user), NoResponse, "up")]

\* variant: the session is started afresh when a login begins
authOpenidRegenerate(sessionUser) ==
    Result(undefined, Redirect(<<providerURL>>), "up")

\* app.post('/auth/openid', passport.authenticate('openid')): the login form
\* posts no query, so the strategy sees no assertion
authOpenid(sessionUser) ==
    passportAuthenticate(sessionUser, NoAssertion).result

\* app.get('/auth/openid/return', passport.authenticate('openid'), function ...)
authOpenidReturn(sessionUser, query) ==
    LET m == passportAuthenticate(sessionUser, query)
    IN  IF m.next
          THEN Result(m.result.sessionUser, returnHandler(m.user), "up")
          ELSE m.result

\* variant: the handler redirects without calling request.logout()
authLogoutNoop(sessionUser, referer) ==
    Result(sessionUser,
           Redirect(<<IF referer # undefined THEN referer ELSE <<"/">> >>),
           "up")

\* app.post('/auth/logout', ...)
authLogout(sessionUser, referer) ==
    Result(logout(sessionUser),
           Redirect(<<IF referer # undefined THEN referer ELSE <<"/">> >>),
           "up")

\* variant: the text is written for every request without a user
rootAlwaysNotLoggedIn(sessionUser, user, query) ==
    Result(sessionUser,
           Page(<< <<"<!DOCTYPE html>">> >> \o
                (IF user # noUser
                   THEN <<IF sessionUser # undefined THEN <<"JSON", user>> ELSE <<"None">>,
                          <<"logout form">> >>
                   ELSE << <<"Not logged in.">>, <<"login form">> >>)),
           "up")

\* app.get('/', ...): the chunks written to the response
root(sessionUser, user, query) ==
    Result(sessionUser,
           Page(<< <<"<!DOCTYPE html>">> >> \o
                (IF user # noUser
                   THEN <<IF sessionUser # undefined THEN <<"JSON", user>> ELSE <<"None">>,
                          <<"logout form">> >>
                   ELSE (IF query.steamid \notin {undefined, <<>>}
                           THEN << <<"Not logged in.">> >> ELSE <<>>)
                        \o << <<"login form">> >>)),
           "up")

(***************************************************************************)
(* The server: every request first passes passport.session(), then its     *)
(* route.                                                                  *)
(***************************************************************************)
\* variant: one session object for all clients instead of one per session key
ServedGlobal(s, req, res) ==
    /\ session' = [k \in SessionKeys |-> res.sessionUser]
    /\ request' = req
    /\ before' = [user |-> session[s], awaiting |-> awaiting[s]]
    /\ response' = res.response
    /\ server' = res.server

Served(s, req, res) ==
    /\ session' = [session EXCEPT ![s] = res.sessionUser]
    /\ request' = req
    /\ before' = [user |-> session[s], awaiting |-> awaiting[s]]
    /\ response' = res.response
    /\ server' = res.server

SessionError(s, u) == Result(session[s], ServerError(u.error), "up")

PostAuthOpenid(s) ==
    /\ server = "up"
    /\ LET u == passportSession(session[s])
           res == IF u.kind = "throw" THEN SessionError(s, u)
                  ELSE authOpenid(session[s])
       IN  /\ Served(s, Request("POST /auth/openid", s, NoAssertion, undefined), res)
           /\ awaiting' = [awaiting EXCEPT ![s] = (res.response = Redirect(<<providerURL>>))]
    /\ UNCHANGED <<roundTrip, idVars, promiseVars>>

GetAuthOpenidReturn(s, query) ==
    /\ server = "up"
    /\ LET u == passportSession(session[s])
           res == IF u.kind = "throw" THEN SessionError(s, u)
                  ELSE authOpenidReturn(session[s], query)
       IN  /\ Served(s, Request("GET /auth/openid/return", s, query, undefined), res)
           /\ awaiting' = [awaiting EXCEPT ![s] = (res.response = Redirect(<<providerURL>>))]
           /\ roundTrip' = [roundTrip EXCEPT ![s] = @ \/ query \in AcceptedAssertions]
    /\ UNCHANGED <<idVars, promiseVars>>

PostAuthLogout(s, referer) ==
    /\ server = "up"
    /\ LET u == passportSession(session[s])
           res == IF u.kind = "throw" THEN SessionError(s, u)
                  ELSE authLogout(session[s], referer)
       IN  /\ Served(s, Request("POST /auth/logout", s, NoAssertion, referer), res)
           /\ awaiting' = [awaiting EXCEPT ![s] = @ /\ u.kind = "throw"]
           /\ roundTrip' = [roundTrip EXCEPT ![s] = @ /\ u.kind = "throw"]
    /\ UNCHANGED <<idVars, promiseVars>>

GetRoot(s, query) ==
    /\ server = "up"
    /\ LET u == passportSession(session[s])
           res == IF u.kind = "throw" THEN SessionError(s, u)
                  ELSE root(session[s], u.value, query)
       IN  Served(s, Request("GET /", s, query, undefined), res)
    /\ UNCHANGED <<awaiting, roundTrip, idVars, promiseVars>>

\* node server.js is started again; the sessions live in the external store
Restart ==
    /\ server = "down"
    /\ server' = "up"
    /\ UNCHANGED <<session, awaiting, roundTrip, request, before, response, idVars, promiseVars>>

AuthInit ==
    /\ session = [s \in SessionKeys |-> undefined]
    /\ awaiting = [s \in SessionKeys |-> FALSE]
    /\ roundTrip = [s \in SessionKeys |-> FALSE]
    /\ request = Request("none", 0, NoAssertion, undefined)
    /\ before = [user |-> undefined, awaiting |-> FALSE]
    /\ response = NoResponse
    /\ server = "up"

IdIdle ==
    /\ identifier = <<>>
    /\ validated = notRun
    /\ key = notRun
    /\ restored = notRun
    /\ stage = "input"

Init == AuthInit /\ IdIdle /\ PromiseIdle

Next ==
    \/ \E s \in SessionKeys : PostAuthOpenid(s)
    \/ \E s \in SessionKeys, q \in ReturnQueries : GetAuthOpenidReturn(s, q)
    \/ \E s \in SessionKeys, r \in Referers : PostAuthLogout(s, r)
    \/ \E s \in SessionKeys, q \in RootQueries : GetRoot(s, q)
    \/ Restart

Spec == Init /\ [][Next]_vars

(***************************************************************************)
(* Identity derivation on its own: the callbacks applied to every string   *)
(* up to MaxLen.                                                           *)
(***************************************************************************)
\* the strategy hands the claimed identifier to the validate callback
RunValidate ==
    /\ stage = "input"
    /\ validated' = validate(identifier)
    /\ stage' = "validated"
    /\ UNCHANGED <<identifier, key, restored, authVars, promiseVars>>

\* passport serializes the user that validate returned into the session
RunSerialize ==
    /\ stage = "validated"
    /\ validated.kind = "done"
    /\ key' = serializeUser(validated.value)
    /\ stage' = "serialized"
    /\ UNCHANGED <<identifier, validated, restored, authVars, promiseVars>>

\* a later request: passport deserializes the key found in the session
RunDeserialize ==
    /\ stage = "serialized"
    /\ restored' = deserializeUser(key.value)
    /\ stage' = "restored"
    /\ UNCHANGED <<identifier, validated, key, authVars, promiseVars>>

\* deserializeUser applied to a key that did not pass through validate
RunDeserializeStored ==
    /\ stage = "input"
    /\ restored' = deserializeUser(identifier)
    /\ stage' = "looked up"
    /\ UNCHANGED <<identifier, validated, key, authVars, promiseVars>>

IdInit ==
    /\ identifier \in Strings
    /\ validated = notRun
    /\ key = notRun
    /\ restored = notRun
    /\ stage = "input"
    /\ AuthInit
    /\ PromiseIdle

IdNext == RunValidate \/ RunSerialize \/ RunDeserialize \/ RunDeserializeStored

IdSpec == IdInit /\ [][IdNext]_vars

(***************************************************************************)
(* The promise chain on its own: components mount and the engine drains    *)
(* the microtask queue.                                                    *)
(***************************************************************************)
PromiseInit == PromiseIdle /\ AuthInit /\ IdIdle

PromiseNext == ComponentDidMount \/ RunMicrotask

PromiseSpec == PromiseInit /\ [][PromiseNext]_vars

(***************************************************************************)
(* Properties.                                                             *)
(***************************************************************************)
\* <prefix>/<digits>: a "/" followed by one or more digits up to the end
SlashPositions(id) ==
    {k \in 1..(Len(id) - 1) : id[k] = "/" /\ \A j \in (k + 1)..Len(id) : id[j] \in Digits}

IsPrefixSlashDigits(id) == SlashPositions(id) # {}

\* the <digits> of <prefix>/<digits>
DigitsAfterSlash(id) ==
    LET k == CHOOSE k \in SlashPositions(id) : TRUE
    IN  [j \in 1..(Len(id) - k) |-> id[k + j]]

NoTrailingDigits(id) == Len(id) = 0 \/ id[Len(id)] \notin Digits

ReturnRoute == "GET /auth/openid/return"

\* C1: for a claimed identifier <prefix>/<digits>, serializeUser returns the
\* claimed identifier unchanged and deserializeUser of that key gives a user with
\* the same claimed identifier and the same numeric ID as the user validate built.
RoundTripPreservesIdentity ==
    (stage = "restored" /\ IsPrefixSlashDigits(identifier)) =>
        /\ key.kind = "done"
        /\ key.value = identifier
        /\ restored.kind = "done"
        /\ restored.value.identifier = validated.value.identifier
        /\ restored.value.steamId = validated.value.steamId

RoundTripWitness ==
    /\ stage = "restored"
    /\ identifier = <<"/", "1", "2">>
    /\ restored = Done(User(<<"/", "1", "2">>, <<"1", "2">>))

\* C5: a claimed identifier without trailing digits makes the derivation fail,
\* in validate and in deserializeUser, with a thrown error (a TypeError) that no
\* provider rejection produces.
MalformedIdentifierThrows ==
    NoTrailingDigits(identifier) =>
        /\ stage = "validated" =>
              validated.kind = "throw" /\ validated.error = "TypeError"
        /\ stage = "looked up" =>
              restored.kind = "throw" /\ restored.error = "TypeError"
        /\ \A q \in RejectedAssertions :
              /\ strategyAuthenticate(q).action \in {"fail", "error"}
              /\ strategyAuthenticate(q).error # "TypeError"

MalformedIdentifierWitness ==
    /\ stage = "validated"
    /\ identifier = <<"h", "/">>
    /\ validated.kind = "throw"

\* C6: for a claimed identifier <prefix>/<digits>, the numeric ID of the derived
\* user is exactly <digits>, the digits that end the identifier.
NumericIdIsTrailingDigits ==
    (stage = "validated" /\ IsPrefixSlashDigits(identifier)) =>
        /\ validated.kind = "done"
        /\ validated.value.identifier = identifier
        /\ validated.value.steamId = DigitsAfterSlash(identifier)

NumericIdWitness ==
    /\ stage = "validated"
    /\ identifier = <<"1", "/", "2">>
    /\ validated.value.steamId = <<"2">>

\* C2 as stated: after a provider return with a rejected assertion the session
\* holds no user identity.
RejectedReturnLeavesNoIdentity ==
    (request.route = ReturnRoute /\ request.query \in RejectedAssertions) =>
        session[request.sid] = undefined

\* C2: a provider return with a rejected assertion stores nothing: the session
\* holds after it what it held before it, so an anonymous session stays anonymous.
RejectedReturnKeepsSession ==
    (request.route = ReturnRoute /\ request.query \in RejectedAssertions) =>
        session[request.sid] = before.user

RejectedReturnWitness ==
    /\ request.route = ReturnRoute
    /\ request.query \in RejectedAssertions
    /\ before.user = undefined
    /\ session[request.sid] = undefined

\* C3: logout always answers with its redirect and leaves the session anonymous,
\* whether it was anonymous, awaiting the provider or authenticated before.
LogoutLeavesAnonymous ==
    request.route = "POST /auth/logout" =>
        /\ session[request.sid] = undefined
        /\ ~awaiting[request.sid]
        /\ response.kind = "redirect"
        /\ server = "up"

LogoutWitness ==
    /\ request.route = "POST /auth/logout"
    /\ before.user # undefined
    /\ session[request.sid] = undefined

\* C4: a session holds no user identity or exactly one that derives, and it holds
\* one only if the provider accepted a return on that session since its creation
\* or its last logout.
IdentityImpliesRoundTrip ==
    \A s \in SessionKeys :
        session[s] # undefined =>
            /\ roundTrip[s]
            /\ session[s] \in ClaimedIds
            /\ passportSession(session[s]).kind = "done"

IdentityWitness ==
    /\ request.route = "GET /"
    /\ session[request.sid] # undefined
    /\ roundTrip[request.sid]
    /\ \E s \in SessionKeys : session[s] = undefined /\ ~roundTrip[s]

\* a provider return that succeeded: the provider accepted the assertion and the
\* claimed identifier has a numeric suffix
ReturnSucceeded ==
    /\ request.route = ReturnRoute
    /\ request.query \in AcceptedAssertions
    /\ ~NoTrailingDigits(request.query.claimedIdentifier)

\* C8 as stated: a successful provider return redirects to /?id=<numericId>.
SuccessRedirectsToIdParam ==
    ReturnSucceeded =>
        response = Redirect(<<"/?id=", passportSession(session[request.sid]).value.steamId>>)

\* C8: a successful provider return redirects to /?steamid=<numericId>, the
\* numeric ID of the user that this request stored in the session.
SuccessRedirectsToSteamid ==
    ReturnSucceeded =>
        /\ session[request.sid] = request.query.claimedIdentifier
        /\ response =
             Redirect(<<"/?steamid=", passportSession(session[request.sid]).value.steamId>>)

SuccessRedirectWitness ==
    /\ ReturnSucceeded
    /\ response = Redirect(<<"/?steamid=", <<"2">> >>)

\* C9: a provider return with a rejected assertion is answered with a redirect
\* to /?failed.
RejectedReturnRedirectsToFailed ==
    (request.route = ReturnRoute /\ request.query \in RejectedAssertions) =>
        response = Redirect(<<"/?failed">>)

\* C10: a login request is answered with a redirect to the provider and leaves
\* the user identity of the session as it was.
LoginRedirectsAndKeepsSession ==
    request.route = "POST /auth/openid" =>
        /\ response = Redirect(<<providerURL>>)
        /\ session[request.sid] = before.user

LoginWitness ==
    /\ request.route = "POST /auth/openid"
    /\ before.user = undefined
    /\ session[request.sid] = undefined
    /\ awaiting[request.sid]

\* what component i has printed, in order
RECURSIVE LoggedBy(_, _)
LoggedBy(i, out) ==
    IF out = <<>> THEN <<>>
    ELSE (IF Head(out).inst = i THEN <<Head(out).args[1]>> ELSE <<>>)
         \o LoggedBy(i, Tail(out))

IsPrefixOf(a, b) == Len(a) <= Len(b) /\ a = SubSeq(b, 1, Len(a))

\* C7: each run of doPromise prints its values in the order 1, 2, 3: at any
\* moment what it has printed is a beginning of 1, 2, 3.
LogsInOrder ==
    \A i \in Instances : IsPrefixOf(LoggedBy(i, console), <<"1", "2", "3">>)

LogsInOrderWitness ==
    /\ Len(console) >= 4
    /\ console[1].inst # console[2].inst
    /\ LoggedBy(1, console) = <<"1", "2", "3">>
    /\ console[1].args = <<"1", "_await">>

\* C11 as stated: a session is authenticated by a provider return only when a
\* login request on that session came before it with no logout in between.
AuthenticatedOnlyAfterLogin ==
    ( /\ request.route = ReturnRoute
      /\ before.user = undefined
      /\ session[request.sid] # undefined ) => before.awaiting

\* C11: a session that holds no user identity comes to hold one only by a
\* provider return on that session whose assertion the provider accepted; the
\* stateless strategy does not ask for a login request before it.
AuthenticatedOnlyByAcceptedReturn ==
    [][\A s \in SessionKeys :
          (session[s] = undefined /\ session'[s] # undefined) =>
              /\ request'.route = ReturnRoute
              /\ request'.sid = s
              /\ request'.query \in AcceptedAssertions]_vars

LifecycleWitness ==
    /\ request.route = ReturnRoute
    /\ request.query \in AcceptedAssertions
    /\ before.user = undefined
    /\ before.awaiting
    /\ session[request.sid] # undefined

\* C12: a provider return whose accepted assertion claims an identifier without
\* a numeric suffix is answered with a failure and leaves the session anonymous.
MalformedReturnIsFailure ==
    ( /\ request.route = ReturnRoute
      /\ request.query \in AcceptedAssertions
      /\ NoTrailingDigits(request.query.claimedIdentifier)
      /\ before.user = undefined ) =>
        /\ response.kind \in {"unauthorized", "error", "redirect"}
        /\ session[request.sid] = undefined

AuthenticatedView ==
    response.body = << <<"<!DOCTYPE html>">>,
                       <<"JSON", deserializeUser(session[request.sid]).value>>,
                       <<"logout form">> >>

AnonymousView ==
    /\ response.body[1] = <<"<!DOCTYPE html>">>
    /\ response.body[Len(response.body)] = <<"login form">>
    /\ \A n \in 1..Len(response.body) :
          response.body[n] \in
              { <<"<!DOCTYPE html>">>, <<"Not logged in.">>, <<"login form">> }

\* C13: GET / answers with the authenticated view (the serialized identity and
\* the logout form) exactly when the session holds a user identity, and with
\* the anonymous view (the login form) otherwise.
RootRendersSessionState ==
    request.route = "GET /" =>
        /\ response.kind = "page"
        /\ session[request.sid] # undefined => AuthenticatedView
        /\ session[request.sid] = undefined => AnonymousView

RootWitness ==
    /\ request.route = "GET /"
    /\ session[request.sid] # undefined
    /\ response.body[3] = <<"logout form">>

\* C14 as stated: GET / writes 'Not logged in.' exactly when the session holds
\* no user identity and the request carries a steamid query parameter.
NotLoggedInIffSteamidCarried ==
    request.route = "GET /" =>
        ( (\E n \in 1..Len(response.body) :
               Len(response.body[n]) = 1 /\ response.body[n][1] = "Not logged in.")
          <=> (session[request.sid] = undefined /\ request.query.steamid # undefined) )

\* C14: GET / writes 'Not logged in.' exactly when the session holds no user
\* identity and the request carries a steamid query parameter that is not empty.
NotLoggedInIffSteamidNonEmpty ==
    request.route = "GET /" =>
        ( (\E n \in 1..Len(response.body) :
               Len(response.body[n]) = 1 /\ response.body[n][1] = "Not logged in.")
          <=> ( /\ session[request.sid] = undefined
                /\ request.query.steamid # undefined
                /\ Len(request.query.steamid) > 0 ) )

NotLoggedInWitness ==
    /\ request.route = "GET /"
    /\ session[request.sid] = undefined
    /\ request.query.steamid = <<"1">>
    /\ response.body[2] = <<"Not logged in.">>

\* C15: a request on one session key leaves the user identity of every other
\* session as it was.
SessionsIsolated ==
    [][\A s \in SessionKeys : s # request'.sid => session'[s] = session[s]]_vars

SessionsIsolatedWitness ==
    /\ request.route = "POST /auth/logout"
    /\ before.user # undefined
    /\ session[request.sid] = undefined
    /\ \E s \in SessionKeys : s # request.sid /\ session[s] # undefined

(***************************************************************************)
(* The promise chain with the engine's guarantee that a queued job is run: *)
(* the microtask queue is drained before the engine does anything else.    *)
(* Nothing obliges a component to mount.                                   *)
(***************************************************************************)
PromiseFairSpec == PromiseSpec /\ WF_vars(RunMicrotask)

\* component i has run doPromise to its end
Completed(i) ==
    /\ LoggedBy(i, console) = <<"1", "2", "3">>
    /\ promises[<<i, "d4">>].state = "fulfilled"
    /\ \A n \in 1..Len(microtasks) : microtasks[n].inst # i

\* C16: every run of doPromise that has started comes to its end having printed
\* exactly 1, 2 and 3, and stays there; no job ever calls the catch handler (the
\* catch reaction is only ever queued for a fulfilment, which it passes on) and
\* no promise is rejected.
DoPromiseCompletes ==
    /\ \A i \in Instances : [](mounted >= i => <>[]Completed(i))
    /\ [](\A n \in 1..Len(microtasks) :
              microtasks[n].handler = "catch" => microtasks[n].how = "fulfilled")
    /\ [](\A id \in PromiseIds : promises[id].state # "rejected")
    /\ [](\A i \in Instances : Len(LoggedBy(i, console)) <= 3)

DoPromiseCompletesWitness ==
    /\ mounted >= 2
    /\ microtasks = <<>>
    /\ \A i \in 1..mounted : Completed(i)

====
